---------------------------- MODULE Spec2Model ----------------------------
(***************************************************************************)
(* Model of src/splash_simu.py: the fall of a cone or a cylinder into      *)
(* water (weight, buoyancy, quadratic drag), its integration over          *)
(* t_span = (0, 8) and the extraction of the impact metrics.               *)
(*                                                                         *)
(* Numbers.  Every Python float is modelled as a fixed-point number: the   *)
(* integer n stands for n / Scale (Scale = 1000, three decimals), and      *)
(* every multiplication and division rounds its result to the nearest      *)
(* representable number, as a float operation does (with fewer digits).    *)
(* Sums and differences of fixed-point numbers are exact.                  *)
(*                                                                         *)
(* Integrator.  scipy's solve_ivp (adaptive RK45 with dense output on      *)
(* t_eval) is library code; it is modelled as a fixed-step explicit        *)
(* scheme that calls system() SubSteps times between two samples of        *)
(* t_eval, and that may fail at any sample (success = False), returning    *)
(* the samples produced so far.                                            *)
(***************************************************************************)
EXTENDS Integers, Sequences, FiniteSets

VARIABLES
    pc,           \* position in the script
    objet,        \* name of the parameter block in use (line 91)
    SHAPE,        \* "cone" or "cylinder" (line 104); any other tag is accepted
    CHOC_BRUTAL,  \* TRUE = instant immersion (line 107)
    m, r,         \* mass, radius (lines 96, 98)
    h_cone, h,    \* reference heights (lines 100, 101)
    z0, v0,       \* initial state (lines 105, 106)
    sol,          \* result of solve_ivp: [t, y, success]
    a,            \* recomputed acceleration (line 175)
    metrics,      \* scalars of lines 177-199
    out,          \* lines printed (201-204)
    zq, Vq, kq    \* probe of the geometry and drag functions

vars == <<pc, objet, SHAPE, CHOC_BRUTAL, m, r, h_cone, h, z0, v0,
          sol, a, metrics, out, zq, Vq, kq>>

config == <<objet, SHAPE, CHOC_BRUTAL, m, r, h_cone, h, z0, v0>>

---------------------------------------------------------------------------
(* Fixed-point arithmetic                                                  *)

Scale == 10 * 100

\* float('inf'): the quotient numpy returns for x / 0 with x > 0
Infinity == 2 ^ 30

Abs(x) == IF x < 0 THEN -x ELSE x

Sgn(x) == IF x > 0 THEN 1 ELSE IF x < 0 THEN -1 ELSE 0

Min(x, y) == IF y < x THEN y ELSE x

\* x * y, rounded to the nearest 1/Scale
MulFx(x, y) ==
    LET big   == IF Abs(x) >= Abs(y) THEN Abs(x) ELSE Abs(y)
        small == IF Abs(x) >= Abs(y) THEN Abs(y) ELSE Abs(x)
        hi    == big \div Scale
        lo    == big % Scale
    IN  Sgn(x) * Sgn(y) * (hi * small + ((lo * small + Scale \div 2) \div Scale))

\* x / y for y # 0, rounded to the nearest 1/Scale
DivFx(x, y) ==
    LET n   == Abs(x)
        d   == Abs(y)
        q   == n \div d
        rem == n % d
    IN  Sgn(x) * Sgn(y) * (q * Scale + ((rem * Scale + d \div 2) \div d))

\* x / y as numpy evaluates it on a float64 x: x / 0 is +-inf, not an error
\* (0 / 0 is nan and is never compared by the callers: they divide z > 0)
FloatDiv(x, y) ==
    IF y = 0 THEN Sgn(x) * Infinity ELSE DivFx(x, y)

RECURSIVE SqrtSearch(_, _, _)
SqrtSearch(x, lo, hi) ==
    IF hi - lo <= 1 THEN lo
    ELSE LET mid == (lo + hi) \div 2
         IN  IF MulFx(mid, mid) <= x THEN SqrtSearch(x, mid, hi)
                                     ELSE SqrtSearch(x, lo, mid)

\* np.sqrt(x) for x >= 0
SqrtFx(x) == SqrtSearch(x, 0, 2 ^ 20)

---------------------------------------------------------------------------
(* Configuration block (lines 91-115), in thousandths                      *)

g       == 9810
rho_eau == 1000000
rho_air == 1225
C_d     == 700
pi      == 3142

A == MulFx(pi, MulFx(r, r))

V_total ==
    IF SHAPE = "cone"
    THEN MulFx(MulFx(MulFx(DivFx(1 * Scale, 3 * Scale), pi), MulFx(r, r)), h_cone)
    ELSE MulFx(MulFx(pi, MulFx(r, r)), h)

k_air == MulFx(MulFx(MulFx(500, rho_air), C_d), A)

k_eau == MulFx(MulFx(MulFx(500, rho_eau), C_d), A)

---------------------------------------------------------------------------
(* Simulation functions (lines 121-161).  V_immerge_run and k_effectif_run *)
(* return the value and the set of divisors of the divisions evaluated on  *)
(* the way.                                                                *)

\* the reference height of the shape in use: h_cone, or h in the else branches
ref_height == IF SHAPE = "cone" THEN h_cone ELSE h

\* x**3
Cube(x) == MulFx(MulFx(x, x), x)

\* variant of Ramp: the cylinder's section is pi * r instead of pi * r**2
Ramp_LinearSection(zz) ==
    IF SHAPE = "cone"
    THEN MulFx(V_total, Cube(FloatDiv(zz, h_cone)))
    ELSE MulFx(MulFx(pi, r), zz)

\* the growing part of V_immerge: line 130 (cone), line 134 (else)
Ramp(zz) ==
    IF SHAPE = "cone"
    THEN MulFx(V_total, Cube(FloatDiv(zz, h_cone)))
    ELSE MulFx(MulFx(pi, MulFx(r, r)), zz)

\* variant of V_immerge: the abrupt branch tests z > 0 instead of z >= 0
V_immerge_StrictSurface(zz) ==
    IF CHOC_BRUTAL
    THEN [val |-> IF zz > 0 THEN V_total ELSE 0, divs |-> {}]
    ELSE IF zz <= 0
    THEN [val |-> 0, divs |-> {}]
    ELSE IF SHAPE = "cone"
    THEN IF zz < h_cone
         THEN [val |-> MulFx(V_total, Cube(FloatDiv(zz, h_cone))), divs |-> {h_cone}]
         ELSE [val |-> V_total, divs |-> {}]
    ELSE IF zz < h
         THEN [val |-> MulFx(MulFx(pi, MulFx(r, r)), zz), divs |-> {}]
         ELSE [val |-> V_total, divs |-> {}]

V_immerge_run(zz) ==
    IF CHOC_BRUTAL
    THEN [val |-> IF zz >= 0 THEN V_total ELSE 0, divs |-> {}]
    ELSE IF zz <= 0
    THEN [val |-> 0, divs |-> {}]
    ELSE IF SHAPE = "cone"
    THEN IF zz < h_cone
         THEN [val |-> Ramp(zz), divs |-> {h_cone}]
         ELSE [val |-> V_total, divs |-> {}]
    ELSE IF zz < h
         THEN [val |-> Ramp(zz), divs |-> {}]
         ELSE [val |-> V_total, divs |-> {}]

V_immerge(zz) == V_immerge_run(zz).val

\* variant of k_effectif: the early return tests z < 0 instead of z <= 0
k_effectif_SurfaceDivides(zz) ==
    IF CHOC_BRUTAL
    THEN [val |-> IF zz >= 0 THEN k_eau ELSE k_air, divs |-> {}]
    ELSE IF zz < 0
    THEN [val |-> k_air, divs |-> {}]
    ELSE LET alpha == Min(FloatDiv(zz, ref_height), 1 * Scale)
         IN  [val  |-> MulFx(1 * Scale - alpha, k_air) + MulFx(alpha, k_eau),
              divs |-> {ref_height}]

\* variant of k_effectif: alpha is capped at 2 instead of 1
k_effectif_LooseCap(zz) ==
    IF CHOC_BRUTAL
    THEN [val |-> IF zz >= 0 THEN k_eau ELSE k_air, divs |-> {}]
    ELSE IF zz <= 0
    THEN [val |-> k_air, divs |-> {}]
    ELSE LET alpha == Min(FloatDiv(zz, ref_height), 2 * Scale)
         IN  [val  |-> MulFx(1 * Scale - alpha, k_air) + MulFx(alpha, k_eau),
              divs |-> {ref_height}]

k_effectif_run(zz) ==
    IF CHOC_BRUTAL
    THEN [val |-> IF zz >= 0 THEN k_eau ELSE k_air, divs |-> {}]
    ELSE IF zz <= 0
    THEN [val |-> k_air, divs |-> {}]
    ELSE LET alpha == Min(FloatDiv(zz, ref_height), 1 * Scale)
         IN  [val  |-> MulFx(1 * Scale - alpha, k_air) + MulFx(alpha, k_eau),
              divs |-> {ref_height}]

k_effectif(zz) == k_effectif_run(zz).val

\* system(t, y) with y = <<z, v>>: returns <<v, a>>
system(tt, y) ==
    LET zz      == y[1]
        vv      == y[2]
        V_imm   == V_immerge(zz)
        k       == k_effectif(zz)
        F_archi == MulFx(MulFx(rho_eau, g), V_imm)
        F_poids == MulFx(m, g)
        F_frott == MulFx(MulFx(k, vv), Abs(vv))
    IN  <<vv, DivFx(F_poids - F_archi - F_frott, m)>>

---------------------------------------------------------------------------
(* Integration (lines 164-169)                                             *)

\* number of points of t_eval (np.linspace(*t_span, 1000000) in the source)
NbPoints == 41

\* calls of system() between two points of t_eval
SubSteps == 4

\* t_span = (0, 8)
t_end == 8000

\* t_eval[i] (i from 0) of np.linspace(0, 8, NbPoints)
t_eval(i) == DivFx(i * t_end, (NbPoints - 1) * Scale)

\* internal step of the integrator
h_step == DivFx(t_end, (NbPoints - 1) * SubSteps * Scale)

\* n explicit steps of the integrator from state y, each one call of system()
RECURSIVE Advance(_, _)
Advance(y, n) ==
    IF n = 0 THEN y
    ELSE LET d == system(0, y)
         IN  Advance(<<y[1] + MulFx(d[1], h_step), y[2] + MulFx(d[2], h_step)>>, n - 1)

\* the state solve_ivp reports at the next point of t_eval
NextSample ==
    IF Len(sol.t) = 0 THEN <<z0, v0>>
    ELSE Advance(<<sol.y[1][Len(sol.t)], sol.y[2][Len(sol.t)]>>, SubSteps)

t == sol.t
z == sol.y[1]
v == sol.y[2]

---------------------------------------------------------------------------
(* Post-processing (lines 171-204)                                         *)

\* variant of line 175: the drag term is k * v * v, without the sign of v
Accel_UnsignedDrag(i) ==
    DivFx(MulFx(m, g) - MulFx(MulFx(rho_eau, g), V_immerge(z[i]))
            - MulFx(MulFx(k_effectif(z[i]), v[i]), v[i]), m)

\* line 175, element i (from 1) of the vectorised expression
Accel(i) ==
    DivFx(MulFx(m, g) - MulFx(MulFx(rho_eau, g), V_immerge(z[i]))
            - MulFx(MulFx(k_effectif(z[i]), v[i]), Abs(v[i])), m)

SeqMax(s) == CHOOSE x \in {s[i] : i \in DOMAIN s} : \A i \in DOMAIN s : s[i] <= x

SeqMin(s) == CHOOSE x \in {s[i] : i \in DOMAIN s} : \A i \in DOMAIN s : x <= s[i]

\* variant of line 187: the last sample with z >= 0 instead of the first
argmax_LastWet ==
    IF \E i \in DOMAIN z : z[i] >= 0
    THEN (CHOOSE i \in DOMAIN z : z[i] >= 0 /\ \A j \in DOMAIN z : j > i => z[j] < 0) - 1
    ELSE 0

\* np.argmax(z >= 0): index (from 0) of the first True, 0 when there is none
argmax_z_ge_0 ==
    IF \E i \in DOMAIN z : z[i] >= 0
    THEN (CHOOSE i \in DOMAIN z : z[i] >= 0 /\ \A j \in 1..(i - 1) : z[j] < 0) - 1
    ELSE 0

\* variant of line 191: np.argmax, the index of the first maximum
argmin_AsArgmax(s) ==
    (CHOOSE i \in DOMAIN s : s[i] = SeqMax(s) /\ \A j \in 1..(i - 1) : s[j] # SeqMax(s)) - 1

\* np.argmin(s): index (from 0) of the first minimum
argmin(s) ==
    (CHOOSE i \in DOMAIN s : s[i] = SeqMin(s) /\ \A j \in 1..(i - 1) : s[j] # SeqMin(s)) - 1

\* denominator of v_terminal (line 178)
v_terminal_den == MulFx(MulFx(rho_air, A), C_d)

ComputedMetrics ==
    LET v_max      == SeqMax(v)
        v_terminal == SqrtFx(DivFx(MulFx(MulFx(2 * Scale, m), g), v_terminal_den))
        a_max      == SeqMin(a)
        idx_eau    == argmax_z_ge_0
        t_eau      == t[idx_eau + 1]
        idx_a_max  == argmin(a)
        t_a_max    == t[idx_a_max + 1]
    IN  [v_max              |-> v_max,
         v_terminal         |-> v_terminal,
         a_max              |-> a_max,
         a_max_g            |-> DivFx(Abs(a_max), 9810),
         pourcentage        |-> FloatDiv(MulFx(100 * Scale, v_max), v_terminal),
         altitude_lancement |-> Abs(z0),
         vitesse_init       |-> v0,
         idx_eau            |-> idx_eau,
         t_eau              |-> t_eau,
         idx_a_max          |-> idx_a_max,
         t_a_max            |-> t_a_max,
         duree_impact       |-> t_a_max - t_eau,
         prof_max           |-> SeqMax(z),
         prof_choc          |-> z[idx_a_max + 1]]

NoMetrics == [computed |-> FALSE]

---------------------------------------------------------------------------
(* The script, statement by statement                                      *)

\* parameter blocks of the kind the source offers (thousandths)
Presets ==
    { [objet |-> "cone 4 m",     m |-> 40000,  r |-> 100, h_cone |-> 4000, h |-> 0],
      [objet |-> "cylinder 4 m", m |-> 40000,  r |-> 100, h_cone |-> 0,    h |-> 4000],
      [objet |-> "heavy",        m |-> 100000, r |-> 100, h_cone |-> 4000, h |-> 4000],
      [objet |-> "needle",       m |-> 40000,  r |-> 0,   h_cone |-> 4000, h |-> 0] }

Shapes == {"cone", "cylinder", "sphere"}

StartDepths == {-400000, -5000, -1000, 0}

StartSpeeds == {0, -3000}

ProbeDepths ==
    {-5000, -1, 0, 1, 500, 1000, 2000, 3000, 3500, 3999, 4000, 4001, 9000}

InitConfig ==
    /\ \E p \in Presets :
          /\ objet = p.objet
          /\ m = p.m
          /\ r = p.r
          /\ h_cone = p.h_cone
          /\ h = p.h
    /\ SHAPE \in Shapes
    /\ CHOC_BRUTAL \in BOOLEAN
    /\ sol = [t |-> <<>>, y |-> <<<<>>, <<>>>>, success |-> FALSE]
    /\ a = <<>>
    /\ metrics = NoMetrics
    /\ out = <<>>

Init ==
    /\ InitConfig
    /\ z0 \in StartDepths
    /\ v0 \in StartSpeeds
    /\ pc = "config"
    /\ zq = 0
    /\ Vq = [val |-> 0, divs |-> {}]
    /\ kq = [val |-> 0, divs |-> {}]

\* lines 91-115 and 164-167: the script accepts every configuration
Configure ==
    /\ pc = "config"
    /\ pc' = "solve"
    /\ UNCHANGED <<config, sol, a, metrics, out, zq, Vq, kq>>

\* one call of V_immerge(d) and of k_effectif(d) on the configuration, as
\* system() and line 175 make them
Probe ==
    /\ pc = "config"
    /\ \E d \in ProbeDepths :
          /\ zq' = d
          /\ Vq' = V_immerge_run(d)
          /\ kq' = k_effectif_run(d)
    /\ pc' = "probed"
    /\ UNCHANGED <<config, sol, a, metrics, out>>

\* solve_ivp produces the next point of t_eval
SolveStep ==
    /\ pc = "solve"
    /\ Len(sol.t) < NbPoints
    /\ LET y == NextSample
       IN  sol' = [sol EXCEPT !.t = Append(@, t_eval(Len(sol.t))),
                              !.y = <<Append(@[1], y[1]), Append(@[2], y[2])>>]
    /\ UNCHANGED <<pc, config, a, metrics, out, zq, Vq, kq>>

\* solve_ivp reaches the end of t_span
SolveFinish ==
    /\ pc = "solve"
    /\ Len(sol.t) = NbPoints
    /\ sol' = [sol EXCEPT !.success = TRUE]
    /\ pc' = "post"
    /\ UNCHANGED <<config, a, metrics, out, zq, Vq, kq>>

\* solve_ivp gives up (step size too small): success stays False and the
\* points produced so far are returned; the script does not read success
SolveFail ==
    /\ pc = "solve"
    /\ Len(sol.t) < NbPoints
    /\ pc' = "post"
    /\ UNCHANGED <<config, sol, a, metrics, out, zq, Vq, kq>>

\* lines 171-175; sol.y[0] raises IndexError when no point was produced
PostPass ==
    /\ pc = "post"
    /\ IF Len(sol.t) = 0
       THEN pc' = "crashed" /\ a' = a
       ELSE pc' = "metrics" /\ a' = [i \in DOMAIN z |-> Accel(i)]
    /\ UNCHANGED <<config, sol, metrics, out, zq, Vq, kq>>

\* lines 177-199; line 178 raises ZeroDivisionError when rho_air*A*C_d is 0
Metrics ==
    /\ pc = "metrics"
    /\ IF v_terminal_den = 0
       THEN pc' = "crashed" /\ metrics' = metrics
       ELSE pc' = "print" /\ metrics' = ComputedMetrics
    /\ UNCHANGED <<config, sol, a, out, zq, Vq, kq>>

\* lines 201-204
PrintSummary ==
    /\ pc = "print"
    /\ out' = << <<"Objet", objet, SHAPE>>,
                 <<"Duree d'impact", metrics.duree_impact>>,
                 <<"Profondeur max", metrics.prof_max>>,
                 <<"Profondeur au pic d'acceleration", metrics.prof_choc>> >>
    /\ pc' = "plot"
    /\ UNCHANGED <<config, sol, a, metrics, zq, Vq, kq>>

\* lines 209-247
Plot ==
    /\ pc = "plot"
    /\ pc' = "done"
    /\ UNCHANGED <<config, sol, a, metrics, out, zq, Vq, kq>>

Next ==
    \/ Configure
    \/ Probe
    \/ SolveStep
    \/ SolveFinish
    \/ SolveFail
    \/ PostPass
    \/ Metrics
    \/ PrintSummary
    \/ Plot

Spec == Init /\ [][Next]_vars

---------------------------------------------------------------------------
(* Vocabulary of the properties                                            *)

\* the trajectory has a sample at or below the surface
HasContact == \E i \in DOMAIN z : z[i] >= 0

\* lines 177-199 have run
MetricsComputed == "t_eau" \in DOMAIN metrics

\* line 175 has run
AccelComputed == pc \in {"metrics", "print", "plot", "done"} \/ Len(a) > 0

\* solve_ivp has returned
SolverReturned == pc \notin {"config", "probed", "solve"}

\* i (from 1) is the first sample with z >= 0
FirstWet(i) == i \in DOMAIN z /\ z[i] >= 0 /\ \A j \in 1..(i - 1) : z[j] < 0

\* i (from 1) is the first sample of minimum acceleration
FirstPeak(i) ==
    /\ i \in DOMAIN a
    /\ \A j \in DOMAIN a : a[i] <= a[j]
    /\ \A j \in 1..(i - 1) : a[j] > a[i]

Max(x, y) == IF x < y THEN y ELSE x

\* a configuration the specification declares invalid
InvalidConfig ==
    \/ m <= 0
    \/ r <= 0
    \/ (~CHOC_BRUTAL /\ ref_height = 0)
    \/ SHAPE \notin {"cone", "cylinder"}

---------------------------------------------------------------------------
(* C1: when no sample has z >= 0, the metrics carry no contact time and no  *)
(* impact duration (they are absent), instead of numbers taken from        *)
(* sample 0.                                                               *)
C1_NoContactIsExplicit ==
    (MetricsComputed /\ ~HasContact)
        => ("t_eau" \notin DOMAIN metrics /\ "duree_impact" \notin DOMAIN metrics)

(* C2: an invalid configuration (mass or radius <= 0, reference height 0   *)
(* in progressive mode, unknown shape tag) is rejected before the          *)
(* integrator is called: no trajectory, no metrics.                        *)
C2_InvalidConfigRejected ==
    InvalidConfig
        => (pc \in {"config", "probed"} /\ Len(sol.t) = 0 /\ ~MetricsComputed)

(* C3: when the integrator reports failure, no metrics are extracted and   *)
(* no summary is printed from the partial trajectory.                      *)
C3_FailureIsFatal ==
    (SolverReturned /\ ~sol.success)
        => (~MetricsComputed /\ Len(a) = 0 /\ Len(out) = 0)

(* C4: in progressive mode the submerged volume lies in [0, V_total], is   *)
(* non-decreasing in z for z >= 0, equals V_total at and beyond the        *)
(* reference height, and the ramp reaches V_total at the reference height  *)
(* (no jump).                                                              *)
C4_ProgressiveVolume ==
    (pc = "probed" /\ ~CHOC_BRUTAL)
        => /\ 0 <= Vq.val /\ Vq.val <= V_total
           /\ \A d \in ProbeDepths : (0 <= zq /\ zq <= d) => Vq.val <= V_immerge(d)
           /\ (zq >= ref_height) => Vq.val = V_total
           /\ (ref_height > 0) => Ramp(ref_height) = V_total
           /\ (0 < zq /\ zq < ref_height) => Vq.val = Ramp(zq)

C4_Witness ==
    /\ pc = "probed" /\ ~CHOC_BRUTAL
    /\ 0 < zq /\ zq < ref_height
    /\ 0 < Vq.val /\ Vq.val < V_total

(* C5: in abrupt mode the submerged volume is 0 for z < 0 and V_total for  *)
(* z >= 0, the drag coefficient k_air for z < 0 and k_eau for z >= 0;      *)
(* along a trajectory both switch exactly at the first sample with z >= 0. *)
C5_AbruptStep ==
    CHOC_BRUTAL
        => /\ (pc = "probed")
                => /\ Vq.val = (IF zq < 0 THEN 0 ELSE V_total)
                   /\ kq.val = (IF zq < 0 THEN k_air ELSE k_eau)
           /\ \A i \in DOMAIN a : FirstWet(i)
                => /\ V_immerge(z[i]) = V_total /\ k_effectif(z[i]) = k_eau
                   /\ \A j \in 1..(i - 1) :
                          V_immerge(z[j]) = 0 /\ k_effectif(z[j]) = k_air

C5_Witness ==
    /\ CHOC_BRUTAL /\ V_total > 0 /\ k_air < k_eau
    /\ \E i \in DOMAIN a : i > 1 /\ FirstWet(i)

(* C6: in progressive mode, for z <= 0 and every reference height          *)
(* (0 included), V_immerge returns 0 and k_effectif returns k_air, and     *)
(* neither evaluates a division.                                           *)
C6_AirSideNoDivision ==
    (pc = "probed" /\ ~CHOC_BRUTAL /\ zq <= 0)
        => /\ Vq.val = 0 /\ Vq.divs = {}
           /\ kq.val = k_air /\ kq.divs = {}

C6_Witness ==
    pc = "probed" /\ ~CHOC_BRUTAL /\ zq = 0 /\ ref_height = 0 /\ k_air > 0

(* C7: in progressive mode with a positive reference height, k_effectif    *)
(* is (1-alpha)*k_air + alpha*k_eau with alpha = clamp(z/ref, 0, 1): it    *)
(* lies between k_air and k_eau, is non-decreasing in z, and is k_eau for  *)
(* z >= ref.                                                               *)
C7_DragBlend ==
    (pc = "probed" /\ ~CHOC_BRUTAL /\ ref_height > 0 /\ k_air <= k_eau)
        => LET alpha == Max(0, Min(DivFx(zq, ref_height), 1 * Scale))
           IN  /\ kq.val = MulFx(1 * Scale - alpha, k_air) + MulFx(alpha, k_eau)
               /\ k_air <= kq.val /\ kq.val <= k_eau
               /\ \A d \in ProbeDepths : zq <= d => kq.val <= k_effectif(d)
               /\ (zq >= ref_height) => kq.val = k_eau

C7_Witness ==
    /\ pc = "probed" /\ ~CHOC_BRUTAL /\ ref_height > 0
    /\ k_air < kq.val /\ kq.val < k_eau

(* C8: when some sample has z >= 0, idx_eau is the first such sample,      *)
(* t_eau its timestamp, and duree_impact is t_peak - t_eau with t_peak the *)
(* timestamp of the first sample of minimum acceleration.                  *)
C8_ContactAndDuration ==
    (MetricsComputed /\ HasContact)
        => /\ FirstWet(metrics.idx_eau + 1)
           /\ metrics.t_eau = t[metrics.idx_eau + 1]
           /\ FirstPeak(metrics.idx_a_max + 1)
           /\ metrics.t_a_max = t[metrics.idx_a_max + 1]
           /\ metrics.duree_impact = t[metrics.idx_a_max + 1] - t[metrics.idx_eau + 1]

C8_Witness ==
    /\ MetricsComputed
    /\ metrics.idx_eau > 0
    /\ metrics.idx_a_max > metrics.idx_eau
    /\ \E i \in DOMAIN z : i > metrics.idx_eau + 1 /\ z[i] < 0

C10_AccelMatchesForceLaw ==
    AccelComputed
        => /\ Len(a) = Len(t) /\ Len(a) = Len(z) /\ Len(a) = Len(v)
           /\ \A i \in DOMAIN a :
                 /\ a[i] = system(t[i], <<z[i], v[i]>>)[2]
                 /\ Sgn(system(t[i], <<z[i], 0>>)[2] - a[i]) \in {0, Sgn(v[i])}

C10_Witness ==
    /\ AccelComputed /\ Len(a) = NbPoints
    /\ \E i \in DOMAIN a : v[i] < 0 /\ z[i] > 0 /\ a[i] # system(t[i], <<z[i], 0>>)[2]
    /\ \E i \in DOMAIN a : v[i] < 0 /\ z[i] < 0 /\ a[i] # system(t[i], <<z[i], 0>>)[2]

===========================================================================
